---- MODULE Spec2Model ----
(***************************************************************************)
(* A model of the calculator of src/script.js: the four globals            *)
(* (currentInput, previousInput, operator, shouldResetDisplay), the        *)
(* display sink, one action per input event, the window error listener    *)
(* and the timer it sets.                                                  *)
(*                                                                         *)
(* JavaScript strings are sequences of one-character strings.  JavaScript  *)
(* numbers are modelled by exact decimals: a sign and a magnitude counted  *)
(* in units of 1 / RoundFactor, the magnitude held as a sequence of        *)
(* decimal digits, most significant first, so that no value is cut to the  *)
(* width of a model-checker integer.                                       *)
(***************************************************************************)
EXTENDS Integers, Sequences, FiniteSets, TLC

VARIABLES currentInput, previousInput, operator, shouldResetDisplay,
          display, event, calcs, keys, timers

vars == <<currentInput, previousInput, operator, shouldResetDisplay,
          display, event, calcs, keys, timers>>

(***************************************************************************)
(* Bounds of the model.                                                    *)
(***************************************************************************)
\* Digit keys offered to the model are "0" .. MaxDigit.
MaxDigit == 1
\* Longest currentInput that typing may build.
MaxLen == 3
\* Most results computed between two runs of clearAll.
MaxCalc == 1
\* Most keys of a typed number.
MaxKeys == 5
\* Most timers of the error listener waiting at a time.
MaxTimers == 1

(***************************************************************************)
(* Strings.                                                                *)
(***************************************************************************)
DigitChars == <<"0", "1", "2", "3", "4", "5", "6", "7", "8", "9">>

IsDigit(c) == c \in {"0", "1", "2", "3", "4", "5", "6", "7", "8", "9"}

DigitVal(c) == (CHOOSE i \in 1..10 : DigitChars[i] = c) - 1

Empty == <<>>

Zero == <<"0">>

ErrorText == <<"E", "r", "r", "o", "r">>

NaNText == <<"N", "a", "N">>

\* String.prototype.includes for a one-character needle.
Includes(s, c) == \E i \in 1..Len(s) : s[i] = c

\* String.prototype.startsWith for a one-character prefix.
StartsWith(s, c) == Len(s) > 0 /\ s[1] = c

\* s.substring(1)
Substring1(s) == SubSeq(s, 2, Len(s))

\* s.slice(0, -1)
SliceLast(s) == SubSeq(s, 1, Len(s) - 1)

(***************************************************************************)
(* Natural numbers of any size: sequences of digits 0..9, most significant *)
(* first, without leading zeros; the empty sequence is 0.  An operation    *)
(* whose operands, less the zeros they both end in, fit a model-checker    *)
(* integer is done on integers; the others are done on limbs of four       *)
(* digits, least significant first.                                        *)
(***************************************************************************)
Max(a, b) == IF a >= b THEN a ELSE b

Min(a, b) == IF a <= b THEN a ELSE b

\* The digit of weight 10^p.
Dig(a, p) == IF p < Len(a) THEN a[Len(a) - p] ELSE 0

Strip(a) ==
    IF \A i \in 1..Len(a) : a[i] = 0 THEN <<>>
    ELSE LET k == CHOOSE i \in 1..Len(a) :
                      a[i] # 0 /\ \A j \in 1..(i - 1) : a[j] = 0
         IN  SubSeq(a, k, Len(a))

StripTrailing(a) ==
    IF \A i \in 1..Len(a) : a[i] = 0 THEN <<>>
    ELSE LET k == CHOOSE i \in 1..Len(a) :
                      a[i] # 0 /\ \A j \in (i + 1)..Len(a) : a[j] = 0
         IN  SubSeq(a, 1, k)

\* The number of zeros a ends in.
TrailingZeros(a) == Len(a) - Len(StripTrailing(a))

\* -1, 0 or 1 as a < b, a = b, a > b.
Cmp(a, b) ==
    IF Len(a) # Len(b) THEN (IF Len(a) < Len(b) THEN -1 ELSE 1)
    ELSE IF a = b THEN 0
    ELSE LET k == CHOOSE i \in 1..Len(a) :
                      a[i] # b[i] /\ \A j \in 1..(i - 1) : a[j] = b[j]
         IN  IF a[k] < b[k] THEN -1 ELSE 1

\* a * 10^k
Shift(a, k) == IF a = <<>> THEN <<>> ELSE a \o [i \in 1..k |-> 0]

\* a \div 10^k
Drop(a, k) == IF Len(a) <= k THEN <<>> ELSE SubSeq(a, 1, Len(a) - k)

\* The digits of a model-checker integer n >= 0.
RECURSIVE NatDigits(_)
NatDigits(n) == IF n = 0 THEN <<>> ELSE NatDigits(n \div 10) \o <<n % 10>>

\* The model-checker integer of at most nine digits a[i..].
RECURSIVE DigitsToInt(_, _, _)
DigitsToInt(a, i, acc) ==
    IF i > Len(a) THEN acc ELSE DigitsToInt(a, i + 1, acc * 10 + a[i])

ToInt(a) == DigitsToInt(a, 1, 0)

\* A limb holds four digits.
Base == 10000

\* The limbs of the digit sequence a.
ToLimbs(a) ==
    [i \in 1..((Len(a) + 3) \div 4) |->
        Dig(a, 4 * i - 4) + 10 * Dig(a, 4 * i - 3)
        + 100 * Dig(a, 4 * i - 2) + 1000 * Dig(a, 4 * i - 1)]

\* The digit of weight 10^k of a limb.
LimbDig(x, k) ==
    IF k = 0 THEN x % 10
    ELSE IF k = 1 THEN (x \div 10) % 10
    ELSE IF k = 2 THEN (x \div 100) % 10
    ELSE (x \div 1000) % 10

\* The digits of the limbs l, four to a limb.
LimbText(l) ==
    [i \in 1..(4 * Len(l)) |->
        LimbDig(l[(4 * Len(l) - i) \div 4 + 1], (4 * Len(l) - i) % 4)]

FromLimbs(l) == Strip(LimbText(l))

Limb(l, i) == IF i <= Len(l) THEN l[i] ELSE 0

\* Carries the columns cols, from column i on, into limbs below Base.
RECURSIVE Norm(_, _, _)
Norm(cols, i, carry) ==
    IF i > Len(cols)
    THEN IF carry = 0 THEN <<>>
         ELSE <<carry % Base>> \o Norm(cols, i, carry \div Base)
    ELSE <<(cols[i] + carry) % Base>>
         \o Norm(cols, i + 1, (cols[i] + carry) \div Base)

AddLimbs(a, b) ==
    LET x == ToLimbs(a)
        y == ToLimbs(b)
    IN  FromLimbs(Norm([i \in 1..Max(Len(x), Len(y)) |->
                           Limb(x, i) + Limb(y, i)], 1, 0))

Add(a, b) ==
    IF a = <<>> THEN b
    ELSE IF b = <<>> THEN a
    ELSE LET k == Min(TrailingZeros(a), TrailingZeros(b))
         IN  IF Len(a) - k <= 9 /\ Len(b) - k <= 9
             THEN Shift(NatDigits(ToInt(Drop(a, k)) + ToInt(Drop(b, k))), k)
             ELSE AddLimbs(a, b)

SubLimbs(a, b) ==
    LET x == ToLimbs(a)
        y == ToLimbs(b)
    IN  FromLimbs(Norm([i \in 1..Len(x) |-> x[i] - Limb(y, i)], 1, 0))

\* a - b, for a >= b.
Sub(a, b) ==
    IF b = <<>> THEN a
    ELSE LET k == Min(TrailingZeros(a), TrailingZeros(b))
         IN  IF Len(a) - k <= 9
             THEN Shift(NatDigits(ToInt(Drop(a, k)) - ToInt(Drop(b, k))), k)
             ELSE SubLimbs(a, b)

\* a * m for 0 <= m <= Base.
MulSmall(a, m) ==
    LET k == TrailingZeros(a)
        x == ToLimbs(a)
    IN  IF Len(a) - k <= 5
        THEN Shift(NatDigits(ToInt(Drop(a, k)) * m), k)
        ELSE FromLimbs(Norm([i \in 1..Len(x) |-> x[i] * m], 1, 0))

\* The sum of x[i] * y[k + 1 - i] over the i from i on.
RECURSIVE Column(_, _, _, _)
Column(x, y, k, i) ==
    IF i > Len(x) \/ i > k THEN 0
    ELSE Limb(x, i) * Limb(y, k + 1 - i) + Column(x, y, k, i + 1)

MulLimbs(a, b) ==
    LET x == ToLimbs(a)
        y == ToLimbs(b)
    IN  FromLimbs(Norm([k \in 1..(Len(x) + Len(y)) |-> Column(x, y, k, 1)],
                       1, 0))

Mul(a, b) ==
    LET x == StripTrailing(a)
        y == StripTrailing(b)
        k == (Len(a) - Len(x)) + (Len(b) - Len(y))
    IN  IF Len(x) + Len(y) <= 9
        THEN Shift(NatDigits(ToInt(x) * ToInt(y)), k)
        ELSE Shift(MulLimbs(x, y), k)

\* The largest d in 0..9 with b * (d * w) <= r.
QuotDigit(r, b, w) ==
    Cardinality({d \in 1..9 : Cmp(MulSmall(b, d * w), r) <= 0})

\* <<q + r \div b, r % b>> for r < 10 * w * b, where w is a power of ten: the
\* digits of the quotient one at a time, from the one of weight w down.
RECURSIVE LimbStepFrom(_, _, _, _)
LimbStepDigit(r, b, w, q, d) ==
    LimbStepFrom(Sub(r, MulSmall(b, d * w)), b, w \div 10, q + d * w)

LimbStepFrom(r, b, w, q) ==
    IF w = 0 THEN <<q, r>>
    ELSE LimbStepDigit(r, b, w, q, QuotDigit(r, b, w))

\* <<r \div b, r % b>> for r < Base * b.
LimbStep(r, b) ==
    IF Cmp(r, b) < 0 THEN <<0, r>> ELSE LimbStepFrom(r, b, Base \div 10, 0)

\* Long division of the limbs x[i..] by b: <<quotient limbs, remainder>>.
\* h is the division of the limbs above x[i], c that of its remainder
\* followed by x[i].
DivLimbsJoin(q, c) == <<(<<c[1]>>) \o q, c[2]>>

DivLimbsStep(limb, b, h) ==
    DivLimbsJoin(h[1], LimbStep(Strip(h[2] \o LimbText(<<limb>>)), b))

RECURSIVE DivLimbs(_, _, _)
DivLimbs(x, b, i) ==
    IF i > Len(x) THEN <<<<>>, <<>>>>
    ELSE DivLimbsStep(x[i], b, DivLimbs(x, b, i + 1))

\* Short division of the limbs x[i..] by an integer m of at most five
\* digits: <<quotient limbs, remainder>>.
DivShortStep(r, m, q) == <<(<<r \div m>>) \o q, r % m>>

RECURSIVE DivShort(_, _, _)
DivShortJoin(limb, m, h) == DivShortStep(h[2] * Base + limb, m, h[1])

DivShort(x, m, i) ==
    IF i > Len(x) THEN <<<<>>, 0>>
    ELSE DivShortJoin(x[i], m, DivShort(x, m, i + 1))

\* <<a \div b, a % b>> for a >= b, where x and y are a and b less the k
\* zeros they both end in.
DivShortResult(d, k) == <<FromLimbs(d[1]), Shift(NatDigits(d[2]), k)>>

DivLimbsResult(d) == <<FromLimbs(d[1]), d[2]>>

DivModOf(a, b, x, y, k) ==
    IF Len(x) <= 9
    THEN <<NatDigits(ToInt(x) \div ToInt(y)),
           Shift(NatDigits(ToInt(x) % ToInt(y)), k)>>
    ELSE IF Len(y) <= 5
    THEN DivShortResult(DivShort(ToLimbs(x), ToInt(y), 1), k)
    ELSE DivLimbsResult(DivLimbs(ToLimbs(a), b, 1))

DivModBy(a, b, k) == DivModOf(a, b, Drop(a, k), Drop(b, k), k)

\* <<a \div b, a % b>>, for b # 0.
DivMod(a, b) ==
    IF Cmp(a, b) < 0 THEN <<<<>>, a>>
    ELSE DivModBy(a, b, Min(TrailingZeros(a), TrailingZeros(b)))

(***************************************************************************)
(* Numbers.  A value is [nan, neg, mag]: mag counts units of               *)
(* 1 / RoundFactor.  Typing builds strings of at most MaxLen characters,   *)
(* and every result is rounded to a whole number of units, so every        *)
(* operand parsed is a whole number of units as long as MaxLen is at most  *)
(* Precision + 1.                                                          *)
(***************************************************************************)
\* The factor of Math.round(result * 100000000) / 100000000.
RoundFactor == 100000000

\* The number of decimal places RoundFactor keeps.
Precision == Len(NatDigits(RoundFactor)) - 1

RECURSIVE Pow(_, _)
Pow(b, k) == IF k = 0 THEN 1 ELSE b * Pow(b, k - 1)

\* Whether n / 10^Precision is a binary fraction, a value a double holds
\* exactly: 5^Precision divides n, that is, 10^Precision divides
\* n * 2^Precision.
BinaryFraction(n) ==
    LET m == Mul(n, NatDigits(Pow(2, Precision)))
    IN  \A p \in 0..(Precision - 1) : Dig(m, p) = 0

\* The relative error of a few chained operations on doubles is below
\* 10^-FloatDigits.
FloatDigits == 15

NaN == [nan |-> TRUE, neg |-> FALSE, mag |-> <<>>]

Num(neg, mag) == [nan |-> FALSE, neg |-> neg, mag |-> mag]

\* Length of the run of digit characters of s that starts at index i.
DigitRun(s, i) ==
    CHOOSE n \in 0..(Len(s) + 1 - i) :
        /\ \A j \in i..(i + n - 1) : IsDigit(s[j])
        /\ (i + n > Len(s) \/ ~IsDigit(s[i + n]))

ToDigits(s, i, n) == [j \in 1..n |-> DigitVal(s[i + j - 1])]

\* Whether s has one of the characters cs at position i.
HasChar(s, i, cs) == i <= Len(s) /\ s[i] \in cs

\* The pieces parseFloat reads off the front of s: sign, integer digits,
\* fraction digits and exponent; what follows them is ignored.  i0 is
\* where the integer digits begin, ni and nf count the integer and the
\* fraction digits, ePos is where an exponent would begin, eFrom where its
\* digits would, ne counts them.
ParseResult(s, i0, ni, nf, ePos, eFrom, ne) ==
    [ok   |-> ni + nf > 0,
     neg  |-> i0 = 2 /\ s[1] = "-",
     int  |-> ToDigits(s, i0, ni),
     frac |-> ToDigits(s, i0 + ni + 1, nf),
     exp  |-> IF ne = 0 THEN 0
              ELSE IF s[ePos + 1] = "-"
              THEN 0 - ToInt(ToDigits(s, eFrom, ne))
              ELSE ToInt(ToDigits(s, eFrom, ne))]

ParseExponent(s, i0, ni, nf, ePos, eFrom) ==
    ParseResult(s, i0, ni, nf, ePos, eFrom,
                IF HasChar(s, ePos, {"e", "E"}) THEN DigitRun(s, eFrom)
                ELSE 0)

ParseMark(s, i0, ni, nf, ePos) ==
    ParseExponent(s, i0, ni, nf, ePos,
                  IF HasChar(s, ePos, {"e", "E"})
                     /\ HasChar(s, ePos + 1, {"-", "+"})
                  THEN ePos + 2 ELSE ePos + 1)

ParseFraction(s, i0, ni, nf) ==
    ParseMark(s, i0, ni, nf,
              IF HasChar(s, i0 + ni, {"."}) THEN i0 + ni + 1 + nf
              ELSE i0 + ni)

ParseInteger(s, i0, ni) ==
    ParseFraction(s, i0, ni,
                  IF HasChar(s, i0 + ni, {"."}) THEN DigitRun(s, i0 + ni + 1)
                  ELSE 0)

ParseFrom(s, i0) == ParseInteger(s, i0, DigitRun(s, i0))

ParseParts(s) == ParseFrom(s, IF HasChar(s, 1, {"-", "+"}) THEN 2 ELSE 1)

\* m * 10^k, cut to a whole number
Scale(m, k) == IF k >= 0 THEN Shift(m, k) ELSE Drop(m, 0 - k)

FromParts(p) ==
    IF ~p.ok THEN NaN
    ELSE Num(p.neg, Scale(Strip(p.int \o p.frac),
                          Precision - Len(p.frac) + p.exp))

parseFloat(s) == FromParts(ParseParts(s))

DigitText(a) == [i \in 1..Len(a) |-> DigitChars[a[i] + 1]]

\* Number.prototype.toString, radix 10, for magnitudes below 10^21.
NumToString(x) ==
    IF x.nan THEN NaNText
    ELSE IF x.mag = <<>> THEN Zero
    ELSE
      LET sign == IF x.neg THEN <<"-">> ELSE <<>>
          L    == Len(x.mag)
      IN  IF L + 6 <= Precision
          THEN \* below 10^-6: exponent notation
               LET sig == StripTrailing(x.mag)
                   e   == Precision + 1 - L
               IN  sign \o <<DigitChars[sig[1] + 1]>>
                   \o (IF Len(sig) > 1
                       THEN <<".">> \o DigitText(SubSeq(sig, 2, Len(sig)))
                       ELSE <<>>)
                   \o <<"e", "-">> \o DigitText(NatDigits(e))
          ELSE LET ip == Drop(x.mag, Precision)
                   fp == StripTrailing(
                             [i \in 1..Precision |-> Dig(x.mag, Precision - i)])
               IN  sign \o (IF ip = <<>> THEN Zero ELSE DigitText(ip))
                   \o (IF fp = <<>> THEN <<>> ELSE <<".">> \o DigitText(fp))

\* current === 0
IsZero(x) == ~x.nan /\ x.mag = <<>>

\* Whether the double that stands for x is x itself.
Dyadic(x) == BinaryFraction(x.mag)

(***************************************************************************)
(* The values Math.round(result * RoundFactor) / RoundFactor can take,     *)
(* for the exact result num / den units of sign neg.  Math.round rounds a  *)
(* tie towards +Infinity.  The doubles of the code carry a relative error: *)
(* where the exact result lies within that error of a tie, and the double  *)
(* computation is not known to be exact (exactOps and a tie that is a      *)
(* binary fraction), either neighbour may come out.                        *)
(***************************************************************************)
RoundedTo(neg, q, c, diff, den, exactOps) ==
    LET \* |2 * rem - den| * 10^FloatDigits <= 2 * den * (q + 1); the
        \* lengths settle most cases without the product
        near  == \/ diff = <<>>
                 \/ /\ Len(diff) + FloatDigits < Len(den) + Len(q) + 2
                    /\ Cmp(Shift(diff, FloatDigits),
                           Mul(MulSmall(den, 2), Add(q, <<1>>))) <= 0
        exact == /\ c = 0
                 /\ exactOps
                 /\ BinaryFraction(Add(MulSmall(q, 2), <<1>>))
        up    == IF neg THEN c > 0 ELSE c >= 0
    IN  IF near /\ ~exact
        THEN {Num(neg, q), Num(neg, Add(q, <<1>>))}
        ELSE {Num(neg, IF up THEN Add(q, <<1>>) ELSE q)}

RoundedBy(neg, q, twice, den, exactOps) ==
    RoundedTo(neg, q, Cmp(twice, den),
              IF Cmp(twice, den) >= 0 THEN Sub(twice, den)
              ELSE Sub(den, twice),
              den, exactOps)

RoundedAt(neg, qr, den, exactOps) ==
    RoundedBy(neg, qr[1], MulSmall(qr[2], 2), den, exactOps)

Rounded(neg, num, den, exactOps) ==
    RoundedAt(neg, DivMod(num, den), den, exactOps)

\* prev + current, rounded: a sum of whole units is a whole number of units.
NumAdd(x, y) ==
    IF x.nan \/ y.nan THEN {NaN}
    ELSE IF x.neg = y.neg THEN {Num(x.neg, Add(x.mag, y.mag))}
    ELSE LET c == Cmp(x.mag, y.mag)
         IN  IF c = 0 THEN {Num(FALSE, <<>>)}
             ELSE IF c > 0 THEN {Num(x.neg, Sub(x.mag, y.mag))}
             ELSE {Num(y.neg, Sub(y.mag, x.mag))}

\* prev - current, rounded
NumSub(x, y) ==
    IF x.nan \/ y.nan THEN {NaN} ELSE NumAdd(x, Num(~y.neg, y.mag))

\* prev * current, rounded
NumMul(x, y) ==
    IF x.nan \/ y.nan THEN {NaN}
    ELSE Rounded(x.neg # y.neg, Mul(x.mag, y.mag), NatDigits(RoundFactor),
                 Dyadic(x) /\ Dyadic(y))

\* prev / current, rounded, for current # 0
NumDiv(x, y) ==
    IF x.nan \/ y.nan THEN {NaN}
    ELSE Rounded(x.neg # y.neg, Shift(x.mag, Precision), y.mag,
                 Dyadic(x) /\ Dyadic(y))

\* A remainder that takes the sign of current.
RemainderSignOfDivisor(x, y, r) == {Num(y.neg, r)}

\* prev % current, rounded, for current # 0: the remainder r takes the sign
\* of prev.  Where prev is a whole multiple of current and the operands are
\* not both binary fractions, the doubles leave 0 or just under |current|.
Remainder(x, y, r) ==
    IF r = <<>> /\ x.mag # <<>> /\ ~(Dyadic(x) /\ Dyadic(y))
    THEN {Num(x.neg, <<>>), Num(x.neg, y.mag)}
    ELSE {Num(x.neg, r)}

NumMod(x, y) ==
    IF x.nan \/ y.nan THEN {NaN}
    ELSE Remainder(x, y, DivMod(x.mag, y.mag)[2])
(***************************************************************************)
(* The calculator.  A handler is an operator from the record of the four   *)
(* globals and the display to the record it leaves.  The handlers that     *)
(* compute take the string of the rounded result as a parameter: the       *)
(* action draws it from the values the computation on doubles can give.    *)
(***************************************************************************)
Digits == {DigitChars[i + 1] : i \in 0..MaxDigit}

Operators == {"+", "-", "*", "/", "%"}

St == [currentInput       |-> currentInput,
       previousInput      |-> previousInput,
       operator           |-> operator,
       shouldResetDisplay |-> shouldResetDisplay,
       display            |-> display]

updateDisplay(s, value) == [s EXCEPT !.display = value]

\* appendNumber without the reset of currentInput that shouldResetDisplay
\* asks for.
appendNumberKeepsEntry(s, number) ==
    LET s1 == [s EXCEPT !.shouldResetDisplay = FALSE]
    IN  IF s1.currentInput = Zero /\ number = "0" THEN s1
        ELSE LET s2 == IF s1.currentInput = Zero /\ number # "0"
                       THEN [s1 EXCEPT !.currentInput = <<number>>]
                       ELSE [s1 EXCEPT !.currentInput = @ \o <<number>>]
             IN  updateDisplay(s2, s2.currentInput)

\* appendNumber without the tests for a currentInput of "0".
appendNumberNoCollapse(s, number) ==
    LET s1 == IF s.shouldResetDisplay
              THEN [s EXCEPT !.currentInput = Empty,
                             !.shouldResetDisplay = FALSE]
              ELSE s
        s2 == [s1 EXCEPT !.currentInput = @ \o <<number>>]
    IN  updateDisplay(s2, s2.currentInput)

appendNumber(s, number) ==
    LET s1 == IF s.shouldResetDisplay
              THEN [s EXCEPT !.currentInput = Empty,
                             !.shouldResetDisplay = FALSE]
              ELSE s
    IN  IF s1.currentInput = Zero /\ number = "0" THEN s1
        ELSE LET s2 == IF s1.currentInput = Zero /\ number # "0"
                       THEN [s1 EXCEPT !.currentInput = <<number>>]
                       ELSE [s1 EXCEPT !.currentInput = @ \o <<number>>]
             IN  updateDisplay(s2, s2.currentInput)

\* appendDecimal without the test for a decimal point already there.
appendDecimalAgain(s) ==
    LET s1 == IF s.shouldResetDisplay
              THEN [s EXCEPT !.currentInput = Zero,
                             !.shouldResetDisplay = FALSE]
              ELSE s
        s2 == IF s1.currentInput = Empty
              THEN [s1 EXCEPT !.currentInput = Zero]
              ELSE s1
        s3 == [s2 EXCEPT !.currentInput = @ \o <<".">>]
    IN  updateDisplay(s3, s3.currentInput)

appendDecimal(s) ==
    LET s1 == IF s.shouldResetDisplay
              THEN [s EXCEPT !.currentInput = Zero,
                             !.shouldResetDisplay = FALSE]
              ELSE s
        s2 == IF s1.currentInput = Empty
              THEN [s1 EXCEPT !.currentInput = Zero]
              ELSE s1
    IN  IF ~Includes(s2.currentInput, ".")
        THEN LET s3 == [s2 EXCEPT !.currentInput = @ \o <<".">>]
             IN  updateDisplay(s3, s3.currentInput)
        ELSE s2

\* clearAll without the reset of previousInput.
clearAllKeepsOperand(s) ==
    updateDisplay([s EXCEPT !.currentInput = Empty,
                            !.operator = "",
                            !.shouldResetDisplay = FALSE],
                  Zero)

\* clearAll without the reset of shouldResetDisplay.
clearAllKeepsFlag(s) ==
    updateDisplay([s EXCEPT !.currentInput = Empty,
                            !.previousInput = Empty,
                            !.operator = ""],
                  Zero)

clearAll(s) ==
    updateDisplay([s EXCEPT !.currentInput = Empty,
                            !.previousInput = Empty,
                            !.operator = "",
                            !.shouldResetDisplay = FALSE],
                  Zero)

\* The guard of calculateResult: all necessary components are there.
Pending(s) ==
    ~(s.previousInput = Empty \/ s.currentInput = Empty \/ s.operator = "")

\* The guards of the "/" and "%" cases: current === 0.
ByZero(s) ==
    s.operator \in {"/", "%"} /\ IsZero(parseFloat(s.currentInput))

\* The switch with the operands of "-" the other way round.
ComputeReversed(op, prev, current) ==
    CASE op = "+" -> NumAdd(prev, current)
      [] op = "-" -> NumSub(current, prev)
      [] op = "*" -> NumMul(prev, current)
      [] op = "/" -> NumDiv(prev, current)
      [] op = "%" -> NumMod(prev, current)

\* The switch of calculateResult and the rounding that follows it: the
\* values "result" can have after Math.round(result * 100000000) / 100000000.
Compute(op, prev, current) ==
    CASE op = "+" -> NumAdd(prev, current)
      [] op = "-" -> NumSub(prev, current)
      [] op = "*" -> NumMul(prev, current)
      [] op = "/" -> NumDiv(prev, current)
      [] op = "%" -> NumMod(prev, current)

\* The strings result.toString() can be when calculateResult runs on s.
Results(s) ==
    IF Pending(s) /\ ~ByZero(s)
    THEN {NumToString(v) : v \in Compute(s.operator,
                                         parseFloat(s.previousInput),
                                         parseFloat(s.currentInput))}
    ELSE {Empty}

\* calculateResult taking previousInput for a currentInput that is missing.
calculateResultReusesOperand(s, result) ==
    IF s.currentInput = Empty /\ s.previousInput # Empty /\ s.operator # ""
    THEN [updateDisplay(s, s.previousInput) EXCEPT
             !.currentInput = s.previousInput,
             !.previousInput = Empty,
             !.operator = "",
             !.shouldResetDisplay = TRUE]
    ELSE IF ~Pending(s) THEN s
    ELSE IF ByZero(s) THEN clearAll(updateDisplay(s, ErrorText))
    ELSE [updateDisplay(s, result) EXCEPT !.currentInput = result,
                                          !.previousInput = Empty,
                                          !.operator = "",
                                          !.shouldResetDisplay = TRUE]

\* calculateResult unsetting shouldResetDisplay where it has nothing to
\* compute.
calculateResultUnsetsFlag(s, result) ==
    IF ~Pending(s) THEN [s EXCEPT !.shouldResetDisplay = FALSE]
    ELSE IF ByZero(s) THEN clearAll(updateDisplay(s, ErrorText))
    ELSE [updateDisplay(s, result) EXCEPT !.currentInput = result,
                                          !.previousInput = Empty,
                                          !.operator = "",
                                          !.shouldResetDisplay = TRUE]

calculateResult(s, result) ==
    IF ~Pending(s) THEN s
    ELSE IF ByZero(s) THEN clearAll(updateDisplay(s, ErrorText))
    ELSE [updateDisplay(s, result) EXCEPT !.currentInput = result,
                                          !.previousInput = Empty,
                                          !.operator = "",
                                          !.shouldResetDisplay = TRUE]

\* appendOperator without the return on an empty currentInput.
appendOperatorOnNothing(s, op, result) ==
    LET s1 == IF s.currentInput # Empty /\ s.previousInput # Empty
                 /\ s.operator # ""
              THEN calculateResult(s, result)
              ELSE s
        s2 == IF s1.currentInput = Empty /\ s1.previousInput # Empty
              THEN [s1 EXCEPT !.currentInput = s1.previousInput]
              ELSE s1
    IN  updateDisplay([s2 EXCEPT !.previousInput = s2.currentInput,
                                 !.operator = op,
                                 !.currentInput = Empty,
                                 !.shouldResetDisplay = TRUE],
                      s2.currentInput)

\* appendOperator without the call of calculateResult.
appendOperatorNoChain(s, op, result) ==
    LET s2 == IF s.currentInput = Empty /\ s.previousInput # Empty
              THEN [s EXCEPT !.currentInput = s.previousInput]
              ELSE s
    IN  IF s2.currentInput = Empty THEN s2
        ELSE updateDisplay([s2 EXCEPT !.previousInput = s2.currentInput,
                                      !.operator = op,
                                      !.currentInput = Empty,
                                      !.shouldResetDisplay = TRUE],
                           s2.currentInput)

\* appendOperator without the reuse of previousInput.
appendOperatorNoReuse(s, op, result) ==
    LET s1 == IF s.currentInput # Empty /\ s.previousInput # Empty
                 /\ s.operator # ""
              THEN calculateResult(s, result)
              ELSE s
    IN  IF s1.currentInput = Empty THEN s1
        ELSE updateDisplay([s1 EXCEPT !.previousInput = s1.currentInput,
                                      !.operator = op,
                                      !.currentInput = Empty,
                                      !.shouldResetDisplay = TRUE],
                           s1.currentInput)

\* appendOperator taking the currentInput it was called with where
\* calculateResult has left none.
appendOperatorAfterError(s, op, result) ==
    LET s1 == IF s.currentInput # Empty /\ s.previousInput # Empty
                 /\ s.operator # ""
              THEN calculateResult(s, result)
              ELSE s
        s2 == IF s1.currentInput = Empty
              THEN [s1 EXCEPT !.currentInput =
                        IF s1.previousInput # Empty THEN s1.previousInput
                        ELSE s.currentInput]
              ELSE s1
    IN  IF s2.currentInput = Empty THEN s2
        ELSE updateDisplay([s2 EXCEPT !.previousInput = s2.currentInput,
                                      !.operator = op,
                                      !.currentInput = Empty,
                                      !.shouldResetDisplay = TRUE],
                           s2.currentInput)

appendOperator(s, op, result) ==
    LET s1 == IF s.currentInput # Empty /\ s.previousInput # Empty
                 /\ s.operator # ""
              THEN calculateResult(s, result)
              ELSE s
        s2 == IF s1.currentInput = Empty /\ s1.previousInput # Empty
              THEN [s1 EXCEPT !.currentInput = s1.previousInput]
              ELSE s1
    IN  IF s2.currentInput = Empty THEN s2
        ELSE updateDisplay([s2 EXCEPT !.previousInput = s2.currentInput,
                                      !.operator = op,
                                      !.currentInput = Empty,
                                      !.shouldResetDisplay = TRUE],
                           s2.currentInput)

\* The strings formattedResult.toString() can be when calculateSquare runs
\* on s.
Squares(s) ==
    IF s.currentInput = Empty THEN {Empty}
    ELSE {NumToString(v) : v \in NumMul(parseFloat(s.currentInput),
                                        parseFloat(s.currentInput))}

\* calculateSquare without the return on an empty currentInput.
calculateSquareOfNothing(s, formattedResult) ==
    [updateDisplay(s, formattedResult) EXCEPT
        !.currentInput = formattedResult,
        !.shouldResetDisplay = TRUE]

calculateSquare(s, formattedResult) ==
    IF s.currentInput = Empty THEN s
    ELSE [updateDisplay(s, formattedResult) EXCEPT
             !.currentInput = formattedResult,
             !.shouldResetDisplay = TRUE]

\* toggleSign putting a "-" in front whatever currentInput begins with.
toggleSignNegates(s) ==
    IF s.currentInput = Empty \/ s.currentInput = Zero THEN s
    ELSE LET s1 == [s EXCEPT !.currentInput = <<"-">> \o @]
         IN  updateDisplay(s1, s1.currentInput)

\* toggleSign without its updateDisplay.
toggleSignSilent(s) ==
    IF s.currentInput = Empty \/ s.currentInput = Zero THEN s
    ELSE IF StartsWith(s.currentInput, "-")
         THEN [s EXCEPT !.currentInput = Substring1(@)]
         ELSE [s EXCEPT !.currentInput = <<"-">> \o @]

toggleSign(s) ==
    IF s.currentInput = Empty \/ s.currentInput = Zero THEN s
    ELSE LET s1 == IF StartsWith(s.currentInput, "-")
                   THEN [s EXCEPT !.currentInput = Substring1(@)]
                   ELSE [s EXCEPT !.currentInput = <<"-">> \o @]
         IN  updateDisplay(s1, s1.currentInput)

\* The Backspace branch without the test for a lone "-".
backspaceKeepsSign(s) ==
    IF Len(s.currentInput) > 0
    THEN LET s1 == [s EXCEPT !.currentInput = SliceLast(@)]
         IN  IF s1.currentInput = Empty
             THEN [updateDisplay(s1, Zero) EXCEPT !.currentInput = Empty]
             ELSE updateDisplay(s1, s1.currentInput)
    ELSE s

\* The Backspace branch of handleKeyboardInput.
backspace(s) ==
    IF Len(s.currentInput) > 0
    THEN LET s1 == [s EXCEPT !.currentInput = SliceLast(@)]
         IN  IF s1.currentInput = Empty \/ s1.currentInput = <<"-">>
             THEN [updateDisplay(s1, Zero) EXCEPT !.currentInput = Empty]
             ELSE updateDisplay(s1, s1.currentInput)
    ELSE s

(***************************************************************************)
(* Actions: one per input event.  event records the event handled last:    *)
(* its kind and argument, whether the event before it was of the same      *)
(* kind, and what the handler found on entry (which globals were set, the  *)
(* operator, the reset flag, and whether currentInput stood for zero).     *)
(* calcs counts the results computed since clearAll last ran; it only      *)
(* bounds the model.  keys holds the keys of a number as they were typed   *)
(* (Typing below), timers counts the timers of the error listener that     *)
(* have not fired yet (Errors below); input events touch neither.          *)
(***************************************************************************)
\* Whether the handler of an event of this kind computes a result from s.
Computes(kind, s) ==
    \/ kind \in {"operator", "equals"} /\ Pending(s) /\ ~ByZero(s)
    \/ kind = "square" /\ s.currentInput # Empty

\* Whether the handler of an event of this kind runs clearAll on s.
Clears(kind, s) ==
    \/ kind \in {"clear", "error"}
    \/ kind \in {"operator", "equals"} /\ Pending(s) /\ ByZero(s)

\* The bounds on an event of this kind that leaves t.
Within(kind, t) ==
    /\ Computes(kind, St) => calcs < MaxCalc
    /\ Len(t.currentInput) > Len(currentInput) /\ ~Computes(kind, St)
           => Len(t.currentInput) <= MaxLen

\* What an event of this kind, whose handler leaves t, leaves.
Leaves(kind, arg, t) ==
    /\ currentInput' = t.currentInput
    /\ previousInput' = t.previousInput
    /\ operator' = t.operator
    /\ shouldResetDisplay' = t.shouldResetDisplay
    /\ display' = t.display
    /\ event' = [kind    |-> kind,
                 arg     |-> arg,
                 repeat  |-> event.kind = kind,
                 entry   |-> currentInput # Empty,
                 operand |-> previousInput # Empty,
                 op      |-> operator,
                 reset   |-> shouldResetDisplay,
                 zero    |-> currentInput # Empty
                             /\ IsZero(parseFloat(currentInput))]
    /\ calcs' = IF Clears(kind, St) THEN 0
                ELSE IF Computes(kind, St) THEN calcs + 1
                ELSE calcs

Effect(kind, arg, t) == Within(kind, t) /\ Leaves(kind, arg, t)

Handle(kind, arg, t) == Effect(kind, arg, t) /\ UNCHANGED <<keys, timers>>

Init ==
    /\ currentInput = Empty
    /\ previousInput = Empty
    /\ operator = ""
    /\ shouldResetDisplay = FALSE
    /\ display = Zero
    /\ event = [kind |-> "load", arg |-> "", repeat |-> FALSE,
                entry |-> FALSE, operand |-> FALSE, op |-> "",
                reset |-> FALSE, zero |-> FALSE]
    /\ calcs = 0
    /\ keys = <<>>
    /\ timers = 0

Digit == \E d \in Digits : Handle("digit", d, appendNumber(St, d))

Decimal == Handle("decimal", "", appendDecimal(St))

Operator ==
    \E result \in Results(St), op \in Operators :
        Handle("operator", op, appendOperator(St, op, result))

Equals ==
    \E result \in Results(St) :
        Handle("equals", "", calculateResult(St, result))

Square ==
    \E formattedResult \in Squares(St) :
        Handle("square", "", calculateSquare(St, formattedResult))

ToggleSign == Handle("toggleSign", "", toggleSign(St))

Clear == Handle("clear", "", clearAll(St))

Backspace == Handle("backspace", "", backspace(St))

Next ==
    \/ Digit
    \/ Decimal
    \/ Operator
    \/ Equals
    \/ Square
    \/ ToggleSign
    \/ Clear
    \/ Backspace

Spec == Init /\ [][Next]_vars

(***************************************************************************)
(* Typing: a number typed key by key, digits and at most one decimal       *)
(* point, into an empty currentInput with shouldResetDisplay unset: on     *)
(* page load, or with an operand and an operator pending (as "1", "+",     *)
(* "1", Backspace leaves them).                                            *)
(***************************************************************************)
TypingInit ==
    /\ currentInput = Empty
    /\ \/ previousInput = Empty /\ operator = ""
       \/ previousInput = <<"1">> /\ operator = "+"
    /\ shouldResetDisplay = FALSE
    /\ display = Zero
    /\ event = [kind |-> "load", arg |-> "", repeat |-> FALSE,
                entry |-> FALSE, operand |-> FALSE, op |-> "",
                reset |-> FALSE, zero |-> FALSE]
    /\ calcs = 0
    /\ keys = <<>>
    /\ timers = 0

Type(kind, key, t) ==
    /\ Len(keys) < MaxKeys
    /\ Leaves(kind, key, t)
    /\ keys' = keys \o <<key>>
    /\ UNCHANGED timers

TypeDigit == \E d \in Digits : Type("digit", d, appendNumber(St, d))

TypeDecimal == ~Includes(keys, ".") /\ Type("decimal", ".", appendDecimal(St))

TypingNext ==
    \/ TypeDigit
    \/ TypeDecimal

Typing == TypingInit /\ [][TypingNext]_vars

(***************************************************************************)
(* Errors: the input events together with the window error listener and    *)
(* the timer it sets.  The listener runs on any uncaught error of the      *)
(* page; the timer fires once, some time after it was set, between two     *)
(* events.  The input events taken here are those that compute no result.  *)
(***************************************************************************)
Input == Next /\ calcs' = 0

\* window.addEventListener('error', ...)
WindowError ==
    /\ timers < MaxTimers
    /\ Effect("error", "", updateDisplay(clearAll(St), ErrorText))
    /\ timers' = timers + 1
    /\ UNCHANGED keys

\* The callback of setTimeout.
TimerFires ==
    /\ timers > 0
    /\ Effect("timer", "", updateDisplay(St, Zero))
    /\ timers' = timers - 1
    /\ UNCHANGED keys

ErrorsNext ==
    \/ Input
    \/ WindowError
    \/ TimerFires

Errors == Init /\ [][ErrorsNext]_vars

(***************************************************************************)
(* Properties.  A property of a handler is a property of every step: the   *)
(* unprimed variables are what the handler found, event' names the event   *)
(* it handled, the primed variables are what it left.                      *)
(***************************************************************************)
\* Whole numbers as typed, and their arithmetic on integers: the reference
\* the results of the calculator are compared with.
IsIntegerText(s) ==
    LET body == IF StartsWith(s, "-") THEN Substring1(s) ELSE s
    IN  /\ Len(body) > 0
        /\ Len(s) <= MaxLen
        /\ \A i \in 1..Len(body) : IsDigit(body[i])

RECURSIVE NatValue(_)
NatValue(s) ==
    IF s = <<>> THEN 0
    ELSE 10 * NatValue(SliceLast(s)) + DigitVal(s[Len(s)])

IntValue(s) ==
    IF StartsWith(s, "-") THEN 0 - NatValue(Substring1(s)) ELSE NatValue(s)

RECURSIVE NatText(_)
NatText(n) ==
    IF n < 10 THEN <<DigitChars[n + 1]>>
    ELSE NatText(n \div 10) \o <<DigitChars[(n % 10) + 1]>>

IntText(n) == IF n < 0 THEN <<"-">> \o NatText(0 - n) ELSE NatText(n)

IntResult(op, a, b) ==
    CASE op = "+" -> a + b
      [] op = "-" -> a - b
      [] op = "*" -> a * b

\* The operation pending in s is "+", "-" or "*" on whole numbers.
IntegerCase(s) ==
    /\ s.operator \in {"+", "-", "*"}
    /\ IsIntegerText(s.previousInput)
    /\ IsIntegerText(s.currentInput)

IntegerResult(s) ==
    IntText(IntResult(s.operator, IntValue(s.previousInput),
                      IntValue(s.currentInput)))

\* A text that stands for zero: an optional "-", then zeros with at most
\* one decimal point among them.
ZeroText(s) ==
    LET body == IF StartsWith(s, "-") THEN Substring1(s) ELSE s
    IN  /\ Includes(body, "0")
        /\ \A i \in 1..Len(body) : body[i] \in {"0", "."}

\* C1: when previousInput, currentInput and operator are all present and
\* the operation is not a division or modulo by zero, calculateResult
\* leaves previousInput empty, operator none, shouldResetDisplay true and
\* the display equal to the new currentInput, which is a result of the
\* operation; for "+", "-" and "*" on whole numbers it is the text of the
\* integer result.
C1_EvaluateComputes ==
    [][event'.kind = "equals" /\ Pending(St) /\ ~ByZero(St) =>
           /\ previousInput' = Empty
           /\ operator' = ""
           /\ shouldResetDisplay'
           /\ display' = currentInput'
           /\ currentInput' \in Results(St)
           /\ (IntegerCase(St) => currentInput' = IntegerResult(St))]_vars

C1_Witness ==
    /\ event.kind = "equals"
    /\ event.entry /\ event.operand /\ event.op = "*"
    /\ currentInput = <<"1", "2", "1">>
    /\ previousInput = Empty
    /\ operator = ""
    /\ shouldResetDisplay
    /\ display = currentInput

\* C2: with operator "/" or "%", previousInput present and a currentInput
\* that stands for zero, calculateResult resets the four globals:
\* currentInput empty, previousInput empty, operator none,
\* shouldResetDisplay false.
C2_ZeroDivisorResets ==
    [][/\ event'.kind = "equals"
       /\ operator \in {"/", "%"}
       /\ previousInput # Empty
       /\ ZeroText(currentInput)
       => /\ currentInput' = Empty
          /\ previousInput' = Empty
          /\ operator' = ""
          /\ ~shouldResetDisplay']_vars

C2_Witness ==
    /\ event.kind = "equals"
    /\ event.zero /\ event.operand /\ event.op = "/" /\ event.reset
    /\ currentInput = Empty
    /\ previousInput = Empty
    /\ operator = ""
    /\ ~shouldResetDisplay

\* C3: when calculateResult finds a division or modulo by zero, the display
\* holds "Error" once calculateResult has returned.
C3_ErrorShown ==
    [][event'.kind = "equals" /\ Pending(St) /\ ByZero(St) =>
           display' = ErrorText]_vars

C3_Witness ==
    /\ event.kind = "equals"
    /\ event.zero /\ event.operand /\ event.op = "%"
    /\ display = Zero
    /\ currentInput = Empty

\* C4, as it holds: calculateResult right after an appendOperator that took
\* a currentInput X with nothing pending does nothing: currentInput stays
\* empty, previousInput stays X, the operator stays pending and the display
\* keeps showing X.
C4_EvaluateAfterOperatorIdle ==
    [][/\ event.kind = "operator" /\ event.entry /\ ~event.operand
       /\ event'.kind = "equals"
       => /\ currentInput = Empty
          /\ previousInput # Empty
          /\ operator = event.arg
          /\ UNCHANGED <<currentInput, previousInput, operator,
                         shouldResetDisplay, display>>
          /\ display' = previousInput']_vars

C4_Witness ==
    /\ event.kind = "equals"
    /\ ~event.entry /\ event.operand /\ event.op # "" /\ event.reset
    /\ currentInput = Empty
    /\ previousInput # Empty
    /\ operator = event.op
    /\ display = previousInput

\* C4, as stated: calculateResult right after an appendOperator that took a
\* currentInput X with nothing pending leaves currentInput equal to X and
\* the display showing X.
C4_EvaluateReusesOperand ==
    [][/\ event.kind = "operator" /\ event.entry /\ ~event.operand
       /\ event'.kind = "equals"
       => /\ currentInput' = previousInput
          /\ display' = previousInput]_vars

\* C5: a calculateResult right after a calculateResult leaves currentInput,
\* previousInput, operator, shouldResetDisplay and the display as the first
\* one left them.
C5_EvaluateIdempotent ==
    [][event.kind = "equals" /\ event'.kind = "equals" =>
           UNCHANGED <<currentInput, previousInput, operator,
                       shouldResetDisplay, display>>]_vars

C5_Witness ==
    /\ event.kind = "equals" /\ event.repeat
    /\ currentInput # Empty
    /\ previousInput = Empty
    /\ shouldResetDisplay

\* C6: currentInput never holds more than one "." and never begins with
\* more than one "-".
C6_EntryWellFormed ==
    /\ Cardinality({i \in 1..Len(currentInput) : currentInput[i] = "."}) <= 1
    /\ ~(/\ Len(currentInput) >= 2
         /\ currentInput[1] = "-"
         /\ currentInput[2] = "-")

C6_Witness ==
    /\ event.kind = "decimal" /\ event.repeat
    /\ StartsWith(currentInput, "-")
    /\ Includes(currentInput, ".")

\* C7: operator is set only while previousInput is non-empty.
C7_OperatorHasOperand == operator # "" => previousInput # Empty

C7_Witness ==
    /\ event.kind = "backspace" /\ event.entry
    /\ currentInput = Empty
    /\ operator # ""
    /\ previousInput # Empty

\* Whether the handler of an event of this kind commits a value from s: an
\* appendOperator that has a currentInput or a previousInput to take and
\* meets no division by zero, a calculateResult that computes, a
\* calculateSquare of a currentInput.
Commits(kind, s) ==
    \/ /\ kind = "operator"
       /\ s.currentInput # Empty \/ s.previousInput # Empty
       /\ ~(Pending(s) /\ ByZero(s))
    \/ kind = "equals" /\ Pending(s) /\ ~ByZero(s)
    \/ kind = "square" /\ s.currentInput # Empty

C9_OperatorChains ==
    [][event'.kind = "operator" /\ Pending(St) /\ ~ByZero(St) =>
           /\ previousInput' \in Results(St)
           /\ (IntegerCase(St) => previousInput' = IntegerResult(St))
           /\ operator' = event'.arg
           /\ currentInput' = Empty
           /\ shouldResetDisplay'
           /\ display' = previousInput']_vars

C9_Witness ==
    /\ event.kind = "operator"
    /\ event.entry /\ event.operand /\ event.op = "+" /\ event.arg = "*"
    /\ previousInput = <<"2">>
    /\ operator = "*"
    /\ currentInput = Empty
    /\ shouldResetDisplay
    /\ display = <<"2">>

\* C10: appendOperator(op2) with currentInput empty and previousInput
\* non-empty keeps previousInput, replaces operator by op2, leaves
\* currentInput empty and shouldResetDisplay true, shows previousInput and
\* computes nothing.
C10_OperatorReplaced ==
    [][event'.kind = "operator" /\ currentInput = Empty
          /\ previousInput # Empty =>
           /\ previousInput' = previousInput
           /\ operator' = event'.arg
           /\ currentInput' = Empty
           /\ shouldResetDisplay'
           /\ display' = previousInput
           /\ calcs' = calcs]_vars

C10_Witness ==
    /\ event.kind = "operator" /\ event.repeat
    /\ ~event.entry /\ event.operand
    /\ event.op # event.arg
    /\ operator = event.arg
    /\ currentInput = Empty
    /\ previousInput # Empty

\* How many zeros s begins with.
LeadingZeros(s) ==
    CHOOSE n \in 0..Len(s) :
        /\ \A i \in 1..n : s[i] = "0"
        /\ n = Len(s) \/ s[n + 1] # "0"

\* Where the first "." of s is; Len(s) + 1 if it has none.
DotAt(s) ==
    CHOOSE i \in 1..(Len(s) + 1) :
        /\ i = Len(s) + 1 \/ s[i] = "."
        /\ \A j \in 1..(i - 1) : s[j] # "."

\* The keys ks as typed, with leading-zero collapsing: the integer part
\* loses the zeros it begins with, and is "0" if nothing else is left of it.
Collapsed(ks) ==
    LET int  == SubSeq(ks, 1, DotAt(ks) - 1)
        body == SubSeq(int, LeadingZeros(int) + 1, Len(int))
    IN  IF ks = <<>> THEN Empty
        ELSE (IF body = <<>> THEN Zero ELSE body)
             \o SubSeq(ks, DotAt(ks), Len(ks))

\* C11: from an empty currentInput with shouldResetDisplay unset, after any
\* sequence of digit keys with at most one decimal key, currentInput is the
\* keys typed with leading-zero collapsing: a repeated leading "0" is
\* dropped, a leading "0" gives way to the next digit, a decimal key typed
\* first gives "0.".
C11_TypedEntry == currentInput = Collapsed(keys)

C11_Witness ==
    /\ keys = <<"0", "0", "1", ".", "0">>
    /\ currentInput = <<"1", ".", "0">>

\* The globals and the display as a step leaves them.
StAfter ==
    [currentInput       |-> currentInput',
     previousInput      |-> previousInput',
     operator           |-> operator',
     shouldResetDisplay |-> shouldResetDisplay',
     display            |-> display']

\* s with a leading "-" added if it has none, stripped if it has one.
Toggled(s) == IF StartsWith(s, "-") THEN Substring1(s) ELSE <<"-">> \o s

\* C12, as it holds: toggleSign leaves previousInput, operator and
\* shouldResetDisplay alone; on a currentInput that is empty or "0" it
\* changes nothing; on any other it adds a leading "-" or strips the one
\* there is; and on any other than "-0" a second toggleSign restores
\* currentInput.
C12_ToggleSignInvolution ==
    [][event'.kind = "toggleSign" =>
           /\ UNCHANGED <<previousInput, operator, shouldResetDisplay>>
           /\ (currentInput \in {Empty, Zero}
                  => UNCHANGED <<currentInput, display>>)
           /\ (currentInput \notin {Empty, Zero}
                  => currentInput' = Toggled(currentInput))
           /\ (currentInput \notin {Empty, Zero, <<"-", "0">>}
                  => toggleSign(StAfter) =
                         [StAfter EXCEPT !.currentInput = currentInput,
                                         !.display = currentInput])]_vars

C12_Witness ==
    /\ event.kind = "toggleSign" /\ event.repeat
    /\ event.entry /\ ~event.zero
    /\ currentInput = <<"1">>
    /\ display = <<"1">>

\* C12, as stated: on every currentInput that is neither empty nor "0", a
\* second toggleSign restores currentInput.
C12_ToggleSignRestores ==
    [][event'.kind = "toggleSign" /\ currentInput \notin {Empty, Zero} =>
           toggleSign(StAfter).currentInput = currentInput]_vars

\* s without its last character.
Shortened(s) == [i \in 1..(Len(s) - 1) |-> s[i]]

\* C13: the Backspace key on a non-empty currentInput removes its last
\* character; if what is left is empty or "-", currentInput becomes empty
\* and the display shows "0", otherwise the display shows what is left; on
\* an empty currentInput it changes nothing; previousInput, operator and
\* shouldResetDisplay are never changed.
C13_BackspaceShortens ==
    [][event'.kind = "backspace" =>
           /\ UNCHANGED <<previousInput, operator, shouldResetDisplay>>
           /\ (currentInput = Empty => UNCHANGED <<currentInput, display>>)
           /\ (currentInput # Empty
                  /\ Shortened(currentInput) \in {Empty, <<"-">>}
                  => currentInput' = Empty /\ display' = Zero)
           /\ (currentInput # Empty
                  /\ Shortened(currentInput) \notin {Empty, <<"-">>}
                  => /\ currentInput' = Shortened(currentInput)
                     /\ display' = currentInput')]_vars

C13_Witness ==
    /\ event.kind = "backspace"
    /\ event.entry /\ event.reset /\ event.operand
    /\ currentInput = <<"-", "1">>
    /\ display = currentInput
    /\ shouldResetDisplay

\* C14: clearAll leaves the initial state from every state: currentInput
\* empty, previousInput empty, operator none, shouldResetDisplay false, the
\* display showing "0".
C14_ClearResets ==
    [][event'.kind = "clear" =>
           /\ currentInput' = Empty
           /\ previousInput' = Empty
           /\ operator' = ""
           /\ ~shouldResetDisplay'
           /\ display' = Zero]_vars

C14_Witness ==
    /\ event.kind = "clear"
    /\ event.entry /\ event.operand /\ event.reset /\ event.op # ""
    /\ currentInput = Empty
    /\ previousInput = Empty
    /\ operator = ""
    /\ ~shouldResetDisplay
    /\ display = Zero

\* C15: appendOperator with currentInput and previousInput both empty,
\* calculateResult with any of previousInput, currentInput and operator
\* missing, and calculateSquare with currentInput empty leave the four
\* globals and the display unchanged.
C15_MalformedInputIgnored ==
    [][\/ /\ event'.kind = "operator"
          /\ currentInput = Empty /\ previousInput = Empty
       \/ /\ event'.kind = "equals"
          /\ previousInput = Empty \/ currentInput = Empty \/ operator = ""
       \/ /\ event'.kind = "square"
          /\ currentInput = Empty
       => UNCHANGED <<currentInput, previousInput, operator,
                      shouldResetDisplay, display>>]_vars

C15_Witness ==
    /\ event.kind = "square"
    /\ ~event.entry /\ event.operand /\ ~event.reset
    /\ currentInput = Empty
    /\ previousInput # Empty
    /\ operator # ""
    /\ ~shouldResetDisplay
    /\ display = Zero

\* C16: whatever input events come between the window error listener
\* setting its timer and the timer firing, the calculator is idle in its
\* initial state when the timer fires (currentInput empty, nothing
\* pending), so that the "0" the callback writes replaces no currentInput
\* or operand on display, and the callback changes none of the four
\* globals.
C16_TimerFindsIdle ==
    [][event'.kind = "timer" =>
           /\ currentInput = Empty
           /\ previousInput = Empty
           /\ operator = ""
           /\ display \in {ErrorText, Zero}
           /\ UNCHANGED <<currentInput, previousInput, operator,
                          shouldResetDisplay>>]_vars

C16_Witness ==
    /\ event.kind = "timer"
    /\ event.entry /\ ~event.zero
    /\ currentInput # Empty
    /\ display = Zero
    /\ display # currentInput

\* C17: appendOperator(op2) with operator "/" or "%", previousInput present
\* and a currentInput that stands for zero leaves the initial state:
\* currentInput empty, previousInput empty, operator none (op2 is not taken),
\* shouldResetDisplay false.
C17_OperatorOnZeroDivisorResets ==
    [][/\ event'.kind = "operator"
       /\ operator \in {"/", "%"}
       /\ previousInput # Empty
       /\ ZeroText(currentInput)
       => /\ currentInput' = Empty
          /\ previousInput' = Empty
          /\ operator' = ""
          /\ ~shouldResetDisplay']_vars

C17_Witness ==
    /\ event.kind = "operator"
    /\ event.zero /\ event.operand /\ event.op = "%" /\ event.arg = "+"
    /\ currentInput = Empty
    /\ previousInput = Empty
    /\ operator = ""
    /\ ~shouldResetDisplay

\* The truncated remainder a - b * trunc(a / b) on integers, b # 0.
Abs(n) == IF n < 0 THEN 0 - n ELSE n

TruncQuot(a, b) ==
    IF (a < 0) # (b < 0) THEN 0 - (Abs(a) \div Abs(b))
    ELSE Abs(a) \div Abs(b)

TruncRem(a, b) == a - b * TruncQuot(a, b)

\* C18: for whole numbers previousInput = a and currentInput = b # 0,
\* calculateResult with operator "%" leaves in currentInput the text of the
\* truncated remainder a - b * trunc(a / b); it is never of the sign
\* opposite to a.
C18_ModuloTruncates ==
    [][/\ event'.kind = "equals"
       /\ operator = "%"
       /\ IsIntegerText(previousInput)
       /\ IsIntegerText(currentInput)
       /\ IntValue(currentInput) # 0
       => /\ currentInput' =
                 IntText(TruncRem(IntValue(previousInput),
                                  IntValue(currentInput)))
          /\ IntValue(previousInput) >= 0 => ~StartsWith(currentInput', "-")
          /\ IntValue(previousInput) <= 0
                 => IntValue(currentInput') <= 0]_vars

\* A negative remainder has been displayed: the dividend was negative.
C18_Witness ==
    /\ event.kind = "equals"
    /\ event.op = "%"
    /\ event.operand /\ event.entry /\ ~event.zero
    /\ currentInput = <<"-", "1">>
    /\ display = currentInput

\* C19: in every state reached by input events alone, a non-empty
\* currentInput is what the display shows, and with currentInput empty the
\* display shows "0" or previousInput.
C19_DisplayConsistent ==
    /\ currentInput # Empty => display = currentInput
    /\ currentInput = Empty => display \in {Zero, previousInput}

\* Both cases of an empty currentInput, and a non-empty one, after an event.
C19_Witness ==
    /\ event.kind = "backspace"
    /\ event.entry
    /\ currentInput = Empty
    /\ previousInput # Empty /\ previousInput # Zero
    /\ display = Zero

C19_WitnessOperand ==
    /\ event.kind = "operator"
    /\ currentInput = Empty
    /\ previousInput # Zero
    /\ display = previousInput

\* The whole part of an entry: what stands before the decimal point, the
\* leading "-" left out.
RECURSIVE UpToDot(_)
UpToDot(s) ==
    IF s = <<>> \/ s[1] = "." THEN <<>> ELSE <<s[1]>> \o UpToDot(Tail(s))

IntegerPart(s) == UpToDot(IF StartsWith(s, "-") THEN Substring1(s) ELSE s)

\* C20: the whole part of currentInput, the leading "-" left out, never
\* starts with "0" followed by another digit.
C20_NoLeadingZeros ==
    ~(/\ Len(IntegerPart(currentInput)) >= 2
      /\ IntegerPart(currentInput)[1] = "0"
      /\ IsDigit(IntegerPart(currentInput)[2]))

\* A digit typed after "-0": the entry "-01" is displayed.
C20_Witness ==
    /\ event.kind = "digit"
    /\ event.arg = "1"
    /\ currentInput = <<"-", "0", "1">>
    /\ display = currentInput

====
